---- MODULE Spec2Model ----
(***************************************************************************)
(* ckanext-search-schema: the Solr schema facade (facades.py), the Solr 8  *)
(* adapter used by the command line (adapters.py) and the command line     *)
(* itself (cli.py), as a state machine.                                    *)
(*                                                                         *)
(* Text the program takes apart (the configured solr_url) is a sequence of *)
(* one-character strings, so that urlparse, strip and split are computed   *)
(* as the library computes them.  Schema member names, group names and     *)
(* schema keys are never taken apart and are plain strings.                *)
(***************************************************************************)
EXTENDS Integers, Sequences, FiniteSets, TLC

VARIABLES
    solr_url,   \* tk.config[const.SOLR_URL]: the configured URL, or PyNone
    conn,       \* the outcome of the last facade construction
    solr,       \* the schema the Solr server holds now
    fixed,      \* const.SOLR_FIXED_FIELDS: group -> names never deleted
    call,       \* the most recent call: operation and arguments
    outcome,    \* what that call returned or raised
    requests,   \* the HTTP requests that call issued, in order
    response,   \* the answer a get_full_schema() call got, when it is the call
    fetched,    \* that call's local `schema`: what get_full_schema gave it
    stdout      \* what a command of the command line printed

vars == <<solr_url, conn, solr, fixed, call, outcome, requests, response,
          fetched, stdout>>

-----------------------------------------------------------------------------
(* Bounds of the model.                                                    *)

\* the longest path of a configured URL, in chunks ("/", "solr", "c")
MaxChunks == 5
\* the most members the whole Solr schema holds at once
MaxMembers == 2
\* the longest list of groups handed to clear_schema
MaxGroups == 2

-----------------------------------------------------------------------------
(* Python values.                                                          *)

\* None where a text (a sequence of characters) is expected
PyNone == <<"<None>">>
\* None where a name (a plain string) is expected
NoName == "<None>"

\* `not s` for a text or None
FalsyText(s) == s = PyNone \/ s = <<>>
\* `not name` for a name or None
FalsyName(n) == n = NoName \/ n = ""

Return(v) == [kind |-> "return", value |-> v, error |-> "", msg |-> <<>>]
Raise(e, m) == [kind |-> "raise", value |-> <<>>, error |-> e, msg |-> m]
NoOutcome == [kind |-> "none", value |-> <<>>, error |-> "", msg |-> <<>>]

-----------------------------------------------------------------------------
(* Text helpers: what str.find, str.strip and str.split compute.           *)

RECURSIVE Flatten(_)
Flatten(ss) == IF ss = <<>> THEN <<>> ELSE Head(ss) \o Flatten(Tail(ss))

\* the least index >= from of a character of cs in s, 0 when there is none
Find(s, cs, from) ==
    LET I == {i \in from..Len(s) : s[i] \in cs}
    IN  IF I = {} THEN 0 ELSE CHOOSE i \in I : \A j \in I : i <= j

RECURSIVE lstrip(_, _)
lstrip(s, ch) == IF s # <<>> /\ Head(s) = ch THEN lstrip(Tail(s), ch) ELSE s

RECURSIVE rstrip(_, _)
rstrip(s, ch) ==
    IF s # <<>> /\ s[Len(s)] = ch
    THEN rstrip(SubSeq(s, 1, Len(s) - 1), ch)
    ELSE s

strip(s, ch) == rstrip(lstrip(s, ch), ch)

RECURSIVE split(_, _)
split(s, ch) ==
    LET i == Find(s, {ch}, 1)
    IN  IF i = 0
        THEN <<s>>
        ELSE <<SubSeq(s, 1, i - 1)>> \o split(SubSeq(s, i + 1, Len(s)), ch)

-----------------------------------------------------------------------------
(* urllib.parse.urlparse and urlunparse, on the characters the configured  *)
(* URLs are made of (no ";": the params part is always empty).             *)

Alpha == {"h", "t", "p", "s", "o", "l", "r", "c", "n", "q", "b", "x", "e", "m", "a"}
Digits == {"8"}
SchemeChars == Alpha \cup Digits \cup {"+", "-", "."}
UsesNetloc == {<<"h", "t", "t", "p">>}

\* urlsplit, step by step; each step hands on what is left of the text
SplitScheme(url) ==
    LET colon == Find(url, {":"}, 1)
    IN  IF /\ colon > 1
           /\ url[1] \in Alpha
           /\ \A i \in 1..(colon - 1) : url[i] \in SchemeChars
        THEN [scheme |-> SubSeq(url, 1, colon - 1),
              rest   |-> SubSeq(url, colon + 1, Len(url))]
        ELSE [scheme |-> <<>>, rest |-> url]

NetlocEnd(rest) ==
    LET d == Find(rest, {"/", "?", "#"}, 3)
    IN  IF d = 0 THEN Len(rest) + 1 ELSE d

SplitNetloc(p) ==
    IF Len(p.rest) >= 2 /\ SubSeq(p.rest, 1, 2) = <<"/", "/">>
    THEN [scheme |-> p.scheme,
          netloc |-> SubSeq(p.rest, 3, NetlocEnd(p.rest) - 1),
          rest   |-> SubSeq(p.rest, NetlocEnd(p.rest), Len(p.rest))]
    ELSE [scheme |-> p.scheme, netloc |-> <<>>, rest |-> p.rest]

\* text.split(ch, 1): what is before the first ch, and what is after it
SplitOnce(text, ch) ==
    LET i == Find(text, {ch}, 1)
    IN  IF i = 0
        THEN <<text, <<>>>>
        ELSE <<SubSeq(text, 1, i - 1), SubSeq(text, i + 1, Len(text))>>

SplitFragment(p) ==
    [scheme |-> p.scheme, netloc |-> p.netloc,
     rest |-> SplitOnce(p.rest, "#")[1], fragment |-> SplitOnce(p.rest, "#")[2]]

SplitQuery(p) ==
    [scheme |-> p.scheme, netloc |-> p.netloc,
     path |-> SplitOnce(p.rest, "?")[1], query |-> SplitOnce(p.rest, "?")[2],
     fragment |-> p.fragment]

urlparse(url) == SplitQuery(SplitFragment(SplitNetloc(SplitScheme(url))))

\* urlunparse of [scheme, netloc, "", "", "", ""]
urlunparse(scheme, netloc) ==
    LET u == IF netloc # <<>> \/ (scheme # <<>> /\ scheme \in UsesNetloc)
             THEN <<"/", "/">> \o netloc
             ELSE <<>>
    IN  IF scheme # <<>> THEN scheme \o <<":">> \o u ELSE u

-----------------------------------------------------------------------------
(* SolrBaseFacade: construction and URL building.                          *)

Unparse(result) == urlunparse(result.scheme, result.netloc)

_get_base_url_from_config(url) == Unparse(urlparse(url))

NoCollection == Raise("SolrConfigError", <<"The solr_url doesn't contain collection">>)

\* index 0 where the code has index 1
FirstSegment(segments) ==
    IF segments[1] = <<>> THEN NoCollection ELSE Return(segments[1])

\* split("/")[1], then the emptiness test
SecondSegment(segments) ==
    IF Len(segments) < 2
    THEN Raise("IndexError", <<"list index out of range">>)
    ELSE IF segments[2] = <<>> THEN NoCollection ELSE Return(segments[2])

\* the first segment of the path ("solr") taken for the collection
_get_collection_first_segment(url) ==
    FirstSegment(split(strip(urlparse(url).path, "/"), "/"))

_get_collection_from_config(url) ==
    SecondSegment(split(strip(urlparse(url).path, "/"), "/"))

NoConn == [kind |-> "none", base_url |-> <<>>, collection |-> <<>>,
           error |-> "", args |-> <<PyNone, PyNone>>]

FailedConn(e, args) == [kind |-> "raise", base_url |-> <<>>, collection |-> <<>>,
                        error |-> e, args |-> args]

\* the facade of base_url b and of the collection c stands for, when c is
\* no error
Facade(b, c, args) ==
    IF c.kind = "raise"
    THEN FailedConn(c.error, args)
    ELSE [kind |-> "facade", base_url |-> b, collection |-> c.value,
          error |-> "", args |-> args]

\* SolrBaseFacade.__init__(base_url, collection) under configuration url
SolrBaseFacade_init(url, base_url, collection) ==
    IF FalsyText(url)
    THEN FailedConn("SolrConfigError", <<base_url, collection>>)
    ELSE Facade(IF ~FalsyText(base_url)
                THEN base_url
                ELSE _get_base_url_from_config(url),
                IF ~FalsyText(collection)
                THEN Return(collection)
                ELSE _get_collection_from_config(url),
                <<base_url, collection>>)

_get_url(facade, endpoint) ==
    facade.base_url \o <<"/", "s", "o", "l", "r", "/">> \o facade.collection
        \o <<"/">> \o endpoint

SCHEMA == <<"s", "c", "h", "e", "m", "a">>

-----------------------------------------------------------------------------
(* The configured URLs the model draws from.                               *)

Prefix == <<"h", "t", "t", "p", ":", "/", "/", "n", ":", "8">>
SOLR == <<"s", "o", "l", "r">>
PathChunks == {<<"/">>, SOLR, <<"c">>}
Suffixes == {<<>>, <<"?", "q">>, <<"#", "q">>}

ChunkSeqs == UNION {[1..n -> PathChunks] : n \in 0..MaxChunks}

ConfigUrls ==
    {PyNone, <<>>} \cup
    {pre \o Flatten(cs) \o suf :
        pre \in {Prefix, <<>>}, cs \in ChunkSeqs, suf \in Suffixes}

BaseUrlArgs == {PyNone, <<"b">>}
CollectionArgs == {PyNone, <<>>, <<"x">>}

-----------------------------------------------------------------------------
(* const.py: the schema keys, the groups and their mapping.                *)

SOLR_F_TYPE == "fieldTypes"
SOLR_FIELD == "fields"
SOLR_DYN_FIELD == "dynamicFields"
SOLR_COPY_FIELD == "copyFields"

SchemaGroups == {"field-type", "field", "dynamic-field", "copy-field"}

SOLR_GROUP_MAPPING ==
    [g \in SchemaGroups |->
        CASE g = "field-type"    -> SOLR_F_TYPE
          [] g = "field"         -> SOLR_FIELD
          [] g = "dynamic-field" -> SOLR_DYN_FIELD
          [] g = "copy-field"    -> SOLR_COPY_FIELD]

\* const.SOLR_FIXED_FIELDS.get(group, [])
FixedGet(fx, group) == IF group \in DOMAIN fx THEN fx[group] ELSE {}

-----------------------------------------------------------------------------
(* The Solr schema (types.py) and the server that holds it.                *)

Names == {"a", "b"}

EmptySchema == [fieldTypes |-> <<>>, fields |-> <<>>,
                dynamicFields |-> <<>>, copyFields |-> <<>>]

SchemaKeys == DOMAIN EmptySchema

\* the records a group's list can hold
MembersOf(key) ==
    CASE key = "fieldTypes"    -> {[name |-> n, class |-> "solr.StrField"] : n \in Names}
      [] key = "fields"        -> {[name |-> n, type |-> "string"] : n \in Names}
      [] key = "dynamicFields" -> {[name |-> n, type |-> "string"] : n \in Names}
      [] key = "copyFields"    -> {[source |-> "a", dest |-> "b"],
                                   [source |-> "b", dest |-> "a"]}

SchemaSize(s) ==
    Len(s.fieldTypes) + Len(s.fields) + Len(s.dynamicFields) + Len(s.copyFields)

IdleCall == [op |-> "idle", name |-> NoName, groups |-> <<>>]

\* what answers a request: an HTTP status class, or no answer at all, and a
\* body that is a JSON document or is not well-formed JSON
Json(doc) == [kind |-> "json", doc |-> doc]
Malformed == [kind |-> "malformed", doc |-> <<>>]

SchemaDoc(s) == [responseHeader |-> "ok", schema |-> s]
OtherDoc == [responseHeader |-> "ok"]

\* the answers a GET of the schema endpoint can get while Solr holds s
GetResponses(s) ==
    {[status |-> st, body |-> b] :
        st \in {"2xx", "3xx"}, b \in {Json(SchemaDoc(s)), Malformed}}
    \cup {[status |-> "2xx", body |-> Json(OtherDoc)]}
    \cup {[status |-> "4xx", body |-> Json(SchemaDoc(s))],
          [status |-> "5xx", body |-> Malformed],
          [status |-> "none", body |-> Malformed]}

\* the answers a POST to the schema endpoint can get
PostResponses ==
    {[status |-> "2xx", body |-> Json(OtherDoc)],
     [status |-> "2xx", body |-> Malformed],
     [status |-> "4xx", body |-> Json(OtherDoc)]}

\* what the model keeps of an answer: its status and whether its body parses
NoResponse == [status |-> "", wellformed |-> FALSE]
Seen(resp) == [status |-> resp.status, wellformed |-> resp.body.kind = "json"]

\* the local `schema` of a call, once get_full_schema has returned
NotFetched == [ok |-> FALSE, schema |-> EmptySchema]
Fetched(r) ==
    IF r.kind = "return" THEN [ok |-> TRUE, schema |-> r.value] ELSE NotFetched

-----------------------------------------------------------------------------
(* SolrFacade._send_request and SolrBaseFacade.get_full_schema.            *)

Request(method, url, params, data) ==
    [method |-> method, url |-> url, params |-> params, data |-> data]

\* raise_for_status() raises for 4xx and 5xx only; no answer is a
\* RequestException too
RaisesRequestException(resp) == resp.status \in {"none", "4xx", "5xx"}

\* raise_for_status() left out
_send_request_unchecked(url, resp) ==
    IF resp.status = "none"
    THEN Raise("Exception", <<"Error executing request to ", url>>)
    ELSE IF resp.body.kind = "malformed"
    THEN Raise("JSONDecodeError", <<>>)
    ELSE Return(resp.body.doc)

_send_request(url, resp) ==
    IF RaisesRequestException(resp)
    THEN Raise("Exception", <<"Error executing request to ", url>>)
    ELSE IF resp.body.kind = "malformed"
    THEN Raise("JSONDecodeError", <<>>)
    ELSE Return(resp.body.doc)

\* a schema kept from construction time instead of the answer's
get_full_schema_stale(facade, resp) ==
    LET r == _send_request(_get_url(facade, SCHEMA), resp)
    IN  IF r.kind = "raise" THEN r
        ELSE IF "schema" \notin DOMAIN r.value
        THEN Raise("KeyError", <<"schema">>)
        ELSE Return(EmptySchema)

get_full_schema(facade, resp) ==
    LET r == _send_request(_get_url(facade, SCHEMA), resp)
    IN  IF r.kind = "raise" THEN r
        ELSE IF "schema" \notin DOMAIN r.value
        THEN Raise("KeyError", <<"schema">>)
        ELSE Return(r.value.schema)

-----------------------------------------------------------------------------
(* SolrBaseFacade._get_field.                                              *)

\* the loop over schema[group]: the first record whose "name" is field_name;
\* the message is the f-string's parts, its backquotes written as quotes
RECURSIVE FindEntity(_, _, _)
FindEntity(entities, group, field_name) ==
    IF entities = <<>>
    THEN Raise("SolrApiError", <<group, " '", field_name, "' doesn't exist">>)
    ELSE LET entity_metadata == Head(entities)
         IN  IF "name" \notin DOMAIN entity_metadata
             THEN Raise("KeyError", <<"name">>)
             ELSE IF entity_metadata.name = field_name
             THEN Return(<<entity_metadata>>)
             ELSE FindEntity(Tail(entities), group, field_name)

\* the filter left out: the whole group although a name is given
_get_field_unfiltered(facade, resp, group, field_name) ==
    LET s == get_full_schema(facade, resp)
    IN  IF s.kind = "raise" THEN s ELSE Return(s.value[group])

_get_field(facade, resp, group, field_name) ==
    LET s == get_full_schema(facade, resp)
    IN  IF s.kind = "raise" THEN s
        ELSE IF FalsyName(field_name) THEN Return(s.value[group])
        ELSE FindEntity(s.value[group], group, field_name)

-----------------------------------------------------------------------------
(* Solr8Facade.clear_schema.                                               *)

\* f"delete-{group}"
Command(group) == <<"delete-", group>>

HasCommand(data, command) == \E i \in 1..Len(data) : data[i].command = command

\* data.setdefault(command, []): data keeps the order its keys were added in
setdefault(data, command) ==
    IF HasCommand(data, command)
    THEN data
    ELSE Append(data, [command |-> command, entries |-> <<>>])

\* data[command].extend(items)
extend(data, command, items) ==
    [i \in 1..Len(data) |->
        IF data[i].command = command
        THEN [data[i] EXCEPT !.entries = @ \o items]
        ELSE data[i]]

\* every member listed, the fixed ones too
RECURSIVE NameEntriesAll(_, _)
NameEntriesAll(members, fixedNames) ==
    IF members = <<>> THEN Return(<<>>)
    ELSE LET field == Head(members)
             rest  == NameEntriesAll(Tail(members), fixedNames)
         IN  IF "name" \notin DOMAIN field THEN Raise("KeyError", <<"name">>)
             ELSE IF rest.kind = "raise" THEN rest
             ELSE Return(<<[name |-> field.name]>> \o rest.value)

\* [{"name": field["name"]} for field in schema[key]
\*  if field["name"] not in const.SOLR_FIXED_FIELDS.get(group, [])]
RECURSIVE NameEntries(_, _)
NameEntries(members, fixedNames) ==
    IF members = <<>> THEN Return(<<>>)
    ELSE LET field == Head(members)
             rest  == NameEntries(Tail(members), fixedNames)
         IN  IF "name" \notin DOMAIN field THEN Raise("KeyError", <<"name">>)
             ELSE IF rest.kind = "raise" THEN rest
             ELSE IF field.name \notin fixedNames
             THEN Return(<<[name |-> field.name]>> \o rest.value)
             ELSE rest

\* the list of the fields group read for every group but copy-field
ClearStepFieldsKey(schema, group, data, fx) ==
    LET key     == IF group = "copy-field" THEN SOLR_GROUP_MAPPING[group] ELSE SOLR_FIELD
        command == Command(group)
        d       == setdefault(data, command)
    IN  IF schema[key] = <<>> THEN Return(d)
        ELSE IF group = "copy-field"
        THEN Return(extend(d, command, schema[key]))
        ELSE LET fields == NameEntries(schema[key], FixedGet(fx, group))
             IN  IF fields.kind = "raise" THEN fields
                 ELSE Return(extend(d, command, fields.value))

\* the command added only after the emptiness test
ClearStepLateDefault(schema, group, data, fx) ==
    LET key     == SOLR_GROUP_MAPPING[group]
        command == Command(group)
        d       == setdefault(data, command)
    IN  IF schema[key] = <<>> THEN Return(data)
        ELSE IF group = "copy-field"
        THEN Return(extend(d, command, schema[key]))
        ELSE LET fields == NameEntries(schema[key], FixedGet(fx, group))
             IN  IF fields.kind = "raise" THEN fields
                 ELSE Return(extend(d, command, fields.value))

\* one pass of the loop over groups, for a group the mapping knows
ClearStep(schema, group, data, fx) ==
    LET key     == SOLR_GROUP_MAPPING[group]
        command == Command(group)
        d       == setdefault(data, command)
    IN  IF schema[key] = <<>> THEN Return(d)
        ELSE IF group = "copy-field"
        THEN Return(extend(d, command, schema[key]))
        ELSE LET fields == NameEntries(schema[key], FixedGet(fx, group))
             IN  IF fields.kind = "raise" THEN fields
                 ELSE Return(extend(d, command, fields.value))

\* a group the mapping does not know passed over
RECURSIVE ClearLoopSkipUnknown(_, _, _, _)
ClearLoopSkipUnknown(schema, groups, data, fx) ==
    IF groups = <<>> THEN Return(data)
    ELSE LET group == Head(groups)
         IN  IF group \notin DOMAIN SOLR_GROUP_MAPPING
             THEN ClearLoopSkipUnknown(schema, Tail(groups), data, fx)
             ELSE LET d == ClearStep(schema, group, data, fx)
                  IN  IF d.kind = "raise" THEN d
                      ELSE ClearLoopSkipUnknown(schema, Tail(groups), d.value, fx)

\* the loop over groups: const.SOLR_GROUP_MAPPING[group] raises KeyError for
\* a group the mapping does not know
RECURSIVE ClearLoop(_, _, _, _)
ClearLoop(schema, groups, data, fx) ==
    IF groups = <<>> THEN Return(data)
    ELSE LET group == Head(groups)
         IN  IF group \notin DOMAIN SOLR_GROUP_MAPPING
             THEN Raise("KeyError", <<group>>)
             ELSE LET d == ClearStep(schema, group, data, fx)
                  IN  IF d.kind = "raise" THEN d
                      ELSE ClearLoop(schema, Tail(groups), d.value, fx)

\* clear_schema: the outcome and the requests issued; posted says whether
\* the POST was sent
clear_schema(facade, get_resp, post_resp, groups, fx) ==
    LET url    == _get_url(facade, SCHEMA)
        get    == Request("GET", url, "wt=json", <<>>)
        schema == get_full_schema(facade, get_resp)
    IN  IF schema.kind = "raise"
        THEN [outcome |-> schema, requests |-> <<get>>, posted |-> FALSE,
              schema |-> NotFetched]
        ELSE LET data == ClearLoop(schema.value, groups, <<>>, fx)
             IN  IF data.kind = "raise"
                 THEN [outcome |-> data, requests |-> <<get>>, posted |-> FALSE,
                       schema |-> Fetched(schema)]
                 ELSE LET r == _send_request(url, post_resp)
                      IN  [outcome  |-> IF r.kind = "raise" THEN r ELSE Return(PyNone),
                           requests |-> <<get, Request("POST", url, "", data.value)>>,
                           posted   |-> TRUE,
                           schema   |-> Fetched(schema)]

-----------------------------------------------------------------------------
(* The Solr server: what a delete command does to the schema it holds.     *)

Range(f) == {f[i] : i \in DOMAIN f}

\* the entries the payload lists under the delete command of group
Listed(data, group) ==
    UNION {Range(data[i].entries) :
              i \in {j \in 1..Len(data) : data[j].command = Command(group)}}

GroupOfKey(key) == CHOOSE g \in SchemaGroups : SOLR_GROUP_MAPPING[g] = key

ApplyDeletes(s, data) ==
    LET kept(key) ==
            SelectSeq(s[key],
                LAMBDA m : IF key = "copyFields"
                           THEN m \notin Listed(data, "copy-field")
                           ELSE [name |-> m.name] \notin Listed(data, GroupOfKey(key)))
    IN  [fieldTypes |-> kept("fieldTypes"), fields |-> kept("fields"),
         dynamicFields |-> kept("dynamicFields"), copyFields |-> kept("copyFields")]

-----------------------------------------------------------------------------
(* Construction of a facade under a configuration read at start-up.        *)

Construct(base_url, collection) ==
    /\ conn' = SolrBaseFacade_init(solr_url, base_url, collection)
    /\ UNCHANGED <<solr_url, solr, fixed, call, outcome, requests, response,
                   fetched, stdout>>

InitUrl ==
    /\ solr_url \in ConfigUrls
    /\ conn = NoConn
    /\ solr = EmptySchema
    /\ fixed = <<>>
    /\ call = IdleCall
    /\ outcome = NoOutcome
    /\ requests = <<>>
    /\ response = NoResponse
    /\ fetched = NotFetched
    /\ stdout = <<>>

NextUrl == \E b \in BaseUrlArgs, c \in CollectionArgs : Construct(b, c)

SpecUrl == InitUrl /\ [][NextUrl]_vars

-----------------------------------------------------------------------------
(* adapters.py: the Solr 8 adapter the command line connects to.           *)

AdapterError(a) ==
    IF a.kind = "raise" /\ a.error = "SolrConfigError"
    THEN [a EXCEPT !.error = "SolrAdapterError"]
    ELSE a

\* SolrBaseAdapter.__init__: the facade's construction, word for word, but
\* for the error it raises
SolrBaseAdapter_init(url) == AdapterError(SolrBaseFacade_init(url, PyNone, PyNone))

\* SearchEngineAdapter._send_request: json.loads(response.content)
SearchEngineAdapter_send_request(url, resp) ==
    IF RaisesRequestException(resp)
    THEN Raise("Exception", <<"Error executing request to ", url>>)
    ELSE IF resp.body.kind = "malformed"
    THEN Raise("JSONDecodeError", <<>>)
    ELSE Return(resp.body.doc)

Solr8Adapter_get_full_schema(adapter, resp) ==
    LET r == SearchEngineAdapter_send_request(_get_url(adapter, SCHEMA), resp)
    IN  IF r.kind = "raise" THEN r
        ELSE IF "schema" \notin DOMAIN r.value
        THEN Raise("KeyError", <<"schema">>)
        ELSE Return(r.value.schema)

\* the loop over resp["schema"]["fieldTypes"]: the record itself, not a list
RECURSIVE FindFieldType(_, _)
FindFieldType(field_types, field_type) ==
    IF field_types = <<>>
    THEN Raise("SolrApiError", <<"field_type ", field_type, " doesn't exist">>)
    ELSE LET field_type_metadata == Head(field_types)
         IN  IF "name" \notin DOMAIN field_type_metadata
             THEN Raise("KeyError", <<"name">>)
             ELSE IF field_type_metadata.name = field_type
             THEN Return(field_type_metadata)
             ELSE FindFieldType(Tail(field_types), field_type)

Solr8Adapter_get_field_types(adapter, resp, field_type) ==
    LET r == SearchEngineAdapter_send_request(_get_url(adapter, SCHEMA), resp)
    IN  IF r.kind = "raise" THEN r
        ELSE IF "schema" \notin DOMAIN r.value
        THEN Raise("KeyError", <<"schema">>)
        ELSE IF FalsyName(field_type)
        THEN Return(r.value.schema.fieldTypes)
        ELSE FindFieldType(r.value.schema.fieldTypes, field_type)

\* return {}
Solr8Adapter_get_field(adapter, field_name) == Return(<<>>)

-----------------------------------------------------------------------------
(* cli.py: what a command prints and how it ends.                          *)

\* _echo_colorized(json.dumps(value, indent=4))
EchoJson(value) == [fn |-> "echo", fg |-> "", json |-> <<value>>, text |-> <<>>]
\* click.secho(e, fg="red")
SechoRed(e) == [fn |-> "secho", fg |-> "red", json |-> <<>>, text |-> e.msg]

Propagated(e, reqs) == [outcome |-> e, stdout |-> <<>>, requests |-> reqs]
Printed(line, reqs) == [outcome |-> Return(PyNone), stdout |-> <<line>>, requests |-> reqs]

GetSchema(adapter) == Request("GET", _get_url(adapter, SCHEMA), "wt=json", <<>>)

\* the command after connect() gave adapter and the call gave r
EchoResult(adapter, r) ==
    IF r.kind = "raise"
    THEN Propagated(r, <<GetSchema(adapter)>>)
    ELSE Printed(EchoJson(r.value), <<GetSchema(adapter)>>)

EchoOrSecho(adapter, r) ==
    IF r.kind = "raise" /\ r.error = "SolrApiError"
    THEN Printed(SechoRed(r), <<GetSchema(adapter)>>)
    ELSE EchoResult(adapter, r)

definition_(adapter, resp) ==
    IF adapter.kind = "raise"
    THEN Propagated(Raise(adapter.error, <<>>), <<>>)
    ELSE EchoResult(adapter, Solr8Adapter_get_full_schema(adapter, resp))

definition(url, resp) == definition_(SolrBaseAdapter_init(url), resp)

\* no except clause: the SolrApiError leaves the command
field_types_uncaught(adapter, resp, field_type) ==
    IF adapter.kind = "raise"
    THEN Propagated(Raise(adapter.error, <<>>), <<>>)
    ELSE EchoResult(adapter, Solr8Adapter_get_field_types(adapter, resp, field_type))

field_types_(adapter, resp, field_type) ==
    IF adapter.kind = "raise"
    THEN Propagated(Raise(adapter.error, <<>>), <<>>)
    ELSE EchoOrSecho(adapter, Solr8Adapter_get_field_types(adapter, resp, field_type))

field_types(url, resp, field_type) ==
    field_types_(SolrBaseAdapter_init(url), resp, field_type)

field_(adapter, field_name) ==
    IF adapter.kind = "raise"
    THEN Propagated(Raise(adapter.error, <<>>), <<>>)
    ELSE Printed(EchoJson(Solr8Adapter_get_field(adapter, field_name).value), <<>>)

field(url, field_name) == field_(SolrBaseAdapter_init(url), field_name)

-----------------------------------------------------------------------------
(* The inputs the model draws from.                                        *)

\* the names a caller asks for: none, the empty name, a name the schema may
\* hold, a name it never holds
LookupNames == Names \cup {NoName, "", "z"}

\* the groups a caller asks clear_schema to clear
GroupInputs ==
    UNION {[1..n -> SchemaGroups \cup {"unknown-group"}] : n \in 0..MaxGroups}

\* const.SOLR_FIXED_FIELDS
FixedConfigs ==
    {<<>>,
     [g \in {"field"} |-> {"a"}],
     [g \in SchemaGroups |-> IF g = "field-type" THEN {"b"} ELSE {"a", "b"}]}

DefaultUrl == Prefix \o <<"/">> \o SOLR \o <<"/", "c">>

-----------------------------------------------------------------------------
(* The server's schema changing between calls.                            *)

\* a member added to a group; Solr keeps the names of a group distinct
SolrAdd(key, m) ==
    /\ call = IdleCall
    /\ SchemaSize(solr) < MaxMembers
    /\ IF key = "copyFields" THEN TRUE
       ELSE \A i \in 1..Len(solr[key]) : solr[key][i].name # m.name
    /\ solr' = [solr EXCEPT ![key] = Append(@, m)]
    /\ UNCHANGED <<solr_url, conn, fixed, call, outcome, requests, response,
                   fetched, stdout>>

SolrRemove(key, i) ==
    /\ call = IdleCall
    /\ i \in 1..Len(solr[key])
    /\ solr' = [solr EXCEPT ![key] =
                   SubSeq(@, 1, i - 1) \o SubSeq(@, i + 1, Len(@))]
    /\ UNCHANGED <<solr_url, conn, fixed, call, outcome, requests, response,
                   fetched, stdout>>

-----------------------------------------------------------------------------
(* The calls.  A caller makes one call at a time: it takes what the call   *)
(* returned or raised (Finish) before it makes the next.                   *)

Finish ==
    /\ call # IdleCall
    /\ call' = IdleCall
    /\ outcome' = NoOutcome
    /\ requests' = <<>>
    /\ response' = NoResponse
    /\ fetched' = NotFetched
    /\ stdout' = <<>>
    /\ UNCHANGED <<solr_url, conn, solr, fixed>>

Read(op, name, resp, result) ==
    /\ call = IdleCall
    /\ conn.kind = "facade"
    /\ call' = [op |-> op, name |-> name, groups |-> <<>>]
    /\ outcome' = result
    /\ requests' = <<Request("GET", _get_url(conn, SCHEMA), "wt=json", <<>>)>>
    /\ response' = IF op = "get_full_schema" THEN Seen(resp) ELSE NoResponse
    /\ fetched' = Fetched(get_full_schema(conn, resp))
    /\ stdout' = <<>>
    /\ UNCHANGED <<solr_url, conn, solr, fixed>>

GetFullSchema ==
    \E resp \in GetResponses(solr) :
        Read("get_full_schema", NoName, resp, get_full_schema(conn, resp))

GetFieldTypes(field_type) ==
    \E resp \in GetResponses(solr) :
        Read("get_field_types", field_type, resp,
             _get_field(conn, resp, SOLR_F_TYPE, field_type))

GetFields(field_name) ==
    \E resp \in GetResponses(solr) :
        Read("get_fields", field_name, resp,
             _get_field(conn, resp, SOLR_FIELD, field_name))

GetCopyFields(field_name) ==
    \E resp \in GetResponses(solr) :
        Read("get_copy_fields", field_name, resp,
             _get_field(conn, resp, SOLR_COPY_FIELD, field_name))

GetDynamicFields(field_name) ==
    \E resp \in GetResponses(solr) :
        Read("get_dynamic_fields", field_name, resp,
             _get_field(conn, resp, SOLR_DYN_FIELD, field_name))

\* what the call leaves behind, c being what clear_schema did; Solr applies
\* the commands of a POST it answers with 2xx, and no other
Cleared(groups, post_resp, c) ==
    /\ call' = [op |-> "clear_schema", name |-> NoName, groups |-> groups]
    /\ outcome' = c.outcome
    /\ requests' = c.requests
    /\ response' = NoResponse
    /\ fetched' = c.schema
    /\ solr' = IF c.posted /\ post_resp.status = "2xx"
               THEN ApplyDeletes(solr, c.requests[2].data)
               ELSE solr

ClearSchema(groups) ==
    /\ call = IdleCall
    /\ conn.kind = "facade"
    /\ \E get_resp \in GetResponses(solr), post_resp \in PostResponses :
        Cleared(groups, post_resp,
                clear_schema(conn, get_resp, post_resp, groups, fixed))
    /\ stdout' = <<>>
    /\ UNCHANGED <<solr_url, conn, fixed>>

Cli(op, name, c) ==
    /\ call = IdleCall
    /\ call' = [op |-> op, name |-> name, groups |-> <<>>]
    /\ outcome' = c.outcome
    /\ requests' = c.requests
    /\ stdout' = c.stdout
    /\ UNCHANGED <<solr_url, conn, solr, fixed>>

\* the adapter of the command line fetches the schema as the facade does
CliFetch(resp) ==
    /\ response' = NoResponse
    /\ fetched' = Fetched(Solr8Adapter_get_full_schema(SolrBaseAdapter_init(solr_url), resp))

CliDefinition ==
    \E resp \in GetResponses(solr) :
        /\ Cli("cli_definition", NoName, definition(solr_url, resp))
        /\ CliFetch(resp)

CliFieldTypes(field_type) ==
    \E resp \in GetResponses(solr) :
        /\ Cli("cli_field_types", field_type, field_types(solr_url, resp, field_type))
        /\ CliFetch(resp)

CliField(field_name) ==
    /\ Cli("cli_field", field_name, field(solr_url, field_name))
    /\ response' = NoResponse
    /\ fetched' = NotFetched

-----------------------------------------------------------------------------
(* The facade in use: connect() under the default configuration, then any  *)
(* sequence of calls while the server's schema changes.                    *)

Init ==
    /\ solr_url = DefaultUrl
    /\ conn = SolrBaseFacade_init(solr_url, PyNone, PyNone)
    /\ solr = EmptySchema
    /\ fixed \in FixedConfigs
    /\ call = IdleCall
    /\ outcome = NoOutcome
    /\ requests = <<>>
    /\ response = NoResponse
    /\ fetched = NotFetched
    /\ stdout = <<>>

Next ==
    \/ \E key \in SchemaKeys : \E m \in MembersOf(key) : SolrAdd(key, m)
    \/ \E key \in SchemaKeys : \E i \in 1..MaxMembers : SolrRemove(key, i)
    \/ GetFullSchema
    \/ \E n \in LookupNames : GetFieldTypes(n)
    \/ \E n \in LookupNames : GetFields(n)
    \/ \E n \in LookupNames : GetCopyFields(n)
    \/ \E n \in LookupNames : GetDynamicFields(n)
    \/ \E groups \in GroupInputs : ClearSchema(groups)
    \/ CliDefinition
    \/ \E n \in LookupNames : CliFieldTypes(n)
    \/ \E n \in Names \cup {"z"} : CliField(n)
    \/ Finish

Spec == Init /\ [][Next]_vars

-----------------------------------------------------------------------------
(* What the properties below speak of.                                     *)

\* the URL of the schema endpoint under the default configuration
SchemaUrl == DefaultUrl \o <<"/">> \o SCHEMA

NamedReads == {"get_field_types", "get_fields", "get_dynamic_fields"}

KeyOfRead(op) ==
    CASE op = "get_field_types"    -> "fieldTypes"
      [] op = "get_fields"         -> "fields"
      [] op = "get_dynamic_fields" -> "dynamicFields"
      [] op = "get_copy_fields"    -> "copyFields"

\* the names the members of a list carry
NamesIn(list) == {list[i].name : i \in {j \in 1..Len(list) : "name" \in DOMAIN list[j]}}

\* clear_schema has sent its POST
Posted == call.op = "clear_schema" /\ Len(requests) = 2

Payload == requests[2].data

Requested == Range(call.groups)

-----------------------------------------------------------------------------
(* C1: in the payload clear_schema POSTs, the delete command of a          *)
(* requested group lists no name of the fixed-fields set configured for    *)
(* that group, and lists every other name the group has in the fetched     *)
(* schema.                                                                 *)
C1_FixedFieldsNeverListed ==
    Posted =>
        \A g \in Requested :
            /\ \A e \in Listed(Payload, g) :
                  "name" \in DOMAIN e => e.name \notin FixedGet(fixed, g)
            /\ \A n \in NamesIn(fetched.schema[SOLR_GROUP_MAPPING[g]]) :
                  n \notin FixedGet(fixed, g) => [name |-> n] \in Listed(Payload, g)

\* fields holds a fixed name and another one, and the field group is cleared
C1_Witness ==
    /\ Posted
    /\ "field" \in Requested
    /\ NamesIn(fetched.schema.fields) = {"a", "b"}
    /\ FixedGet(fixed, "field") = {"a"}
    /\ Listed(Payload, "field") = {[name |-> "b"]}

-----------------------------------------------------------------------------
(* C2: get_field_types, get_fields and get_dynamic_fields, once the schema *)
(* is fetched: without a name (None, or the empty name the code takes for  *)
(* none) the result is the whole list of the group; with the name of a     *)
(* member it is a list of exactly one record, of that name; with a name no *)
(* member has the call raises SolrApiError, whose message names the group  *)
(* and the name.                                                           *)
C2_NamedLookup ==
    (call.op \in NamedReads /\ fetched.ok) =>
        LET list == fetched.schema[KeyOfRead(call.op)]
        IN  /\ FalsyName(call.name) => outcome = Return(list)
            /\ (~FalsyName(call.name) /\ call.name \in NamesIn(list)) =>
                  /\ outcome.kind = "return"
                  /\ Len(outcome.value) = 1
                  /\ outcome.value[1].name = call.name
                  /\ outcome.value[1] \in Range(list)
            /\ (~FalsyName(call.name) /\ call.name \notin NamesIn(list)) =>
                  /\ outcome.kind = "raise"
                  /\ outcome.error = "SolrApiError"
                  /\ KeyOfRead(call.op) \in Range(outcome.msg)
                  /\ call.name \in Range(outcome.msg)

\* the second of two fields is asked for by name
C2_Witness ==
    /\ call.op = "get_fields"
    /\ fetched.ok
    /\ Len(fetched.schema.fields) = 2
    /\ call.name = fetched.schema.fields[2].name
    /\ outcome = Return(<<fetched.schema.fields[2]>>)

-----------------------------------------------------------------------------
(* C3: a facade built without arguments from a configured URL of the form  *)
(* scheme://host:port/solr/<collection>/... has base_url scheme://host:port*)
(* and the collection of the URL, so _get_url("schema") is                 *)
(* scheme://host:port/solr/<collection>/schema.                            *)

FormHead == Prefix \o <<"/">> \o SOLR \o <<"/">>

\* where the segment that follows FormHead ends
SegmentEnd(url) ==
    LET d == Find(url, {"/", "?", "#"}, Len(FormHead) + 1)
    IN  IF d = 0 THEN Len(url) ELSE d - 1

HasForm(url) ==
    /\ url # PyNone
    /\ Len(url) > Len(FormHead)
    /\ SubSeq(url, 1, Len(FormHead)) = FormHead
    /\ url[Len(FormHead) + 1] \notin {"/", "?", "#"}

CollectionIn(url) == SubSeq(url, Len(FormHead) + 1, SegmentEnd(url))

NoArgs == conn.args = <<PyNone, PyNone>>

C3_UrlResolved ==
    (conn.kind # "none" /\ NoArgs /\ HasForm(solr_url)) =>
        /\ conn.kind = "facade"
        /\ conn.base_url = Prefix
        /\ conn.collection = CollectionIn(solr_url)
        /\ _get_url(conn, SCHEMA) =
               Prefix \o <<"/">> \o SOLR \o <<"/">> \o CollectionIn(solr_url)
                   \o <<"/">> \o SCHEMA

\* a URL with a slash after the collection and a query
C3_Witness ==
    /\ conn.kind = "facade"
    /\ NoArgs
    /\ solr_url = FormHead \o <<"c", "/", "?", "q">>
    /\ conn.collection = <<"c">>

-----------------------------------------------------------------------------
(* C4: a facade built without a collection argument from a configured URL  *)
(* with no collection segment (scheme://host:port/solr,                    *)
(* scheme://host:port/solr/, scheme://host:port) fails with                *)
(* SolrConfigError and with no other error.                                *)

NoCollectionUrls ==
    {Prefix \o <<"/">> \o SOLR, Prefix \o <<"/">> \o SOLR \o <<"/">>, Prefix}

C4_NoCollectionIsConfigError ==
    (conn.kind # "none" /\ conn.args[2] = PyNone /\ solr_url \in NoCollectionUrls) =>
        (conn.kind = "raise" /\ conn.error = "SolrConfigError")

-----------------------------------------------------------------------------
(* C5: in the payload clear_schema POSTs, the delete command of a          *)
(* requested group whose list in the fetched schema is empty has no entry. *)
C5_EmptyGroupSkipped ==
    Posted =>
        \A g \in Requested :
            fetched.schema[SOLR_GROUP_MAPPING[g]] = <<>> => Listed(Payload, g) = {}

\* an empty group is cleared together with one that has members
C5_Witness ==
    /\ Posted
    /\ call.groups = <<"field", "field-type">>
    /\ fetched.schema.fields # <<>>
    /\ fetched.schema.fieldTypes = <<>>
    /\ Listed(Payload, "field") # {}

-----------------------------------------------------------------------------
(* C6: a clear_schema call that returns has issued exactly one GET of the  *)
(* schema endpoint and then exactly one POST to it; the payload holds one  *)
(* delete command per requested group and none for any other group, and    *)
(* the copy-field command lists the copy-field records as they are.        *)
C6_OneGetOnePost ==
    (call.op = "clear_schema" /\ outcome.kind = "return") =>
        /\ Len(requests) = 2
        /\ requests[1] = Request("GET", SchemaUrl, "wt=json", <<>>)
        /\ requests[2].method = "POST"
        /\ requests[2].url = SchemaUrl
        /\ {Payload[i].command : i \in 1..Len(Payload)} =
               {Command(g) : g \in Requested}
        /\ Len(Payload) = Cardinality(Requested)
        /\ "copy-field" \in Requested =>
               Listed(Payload, "copy-field") = Range(fetched.schema.copyFields)

\* two groups are cleared, copy-field among them, and the other is empty
C6_Witness ==
    /\ call.op = "clear_schema"
    /\ outcome.kind = "return"
    /\ call.groups = <<"dynamic-field", "copy-field">>
    /\ fetched.schema.dynamicFields = <<>>
    /\ Len(fetched.schema.copyFields) = 2
    /\ Len(Payload) = 2

-----------------------------------------------------------------------------
-----------------------------------------------------------------------------
(* C8: get_copy_fields(name) with a name that matches no copy-field rule   *)
(* raises SolrApiError, whose message names the group and the name,        *)
(* whatever source/dest records the copyFields list holds.                 *)
C8_CopyFieldNotFound ==
    (/\ call.op = "get_copy_fields"
     /\ fetched.ok
     /\ ~FalsyName(call.name)
     /\ \A rule \in Range(fetched.schema.copyFields) :
           /\ DOMAIN rule = {"source", "dest"}
           /\ call.name \notin {rule.source, rule.dest}) =>
        /\ outcome.kind = "raise"
        /\ outcome.error = "SolrApiError"
        /\ "copyFields" \in Range(outcome.msg)
        /\ call.name \in Range(outcome.msg)

-----------------------------------------------------------------------------
(* C9: no call works on a schema kept from before: every call of the       *)
(* facade issues its own GET of the schema endpoint first, and the schema  *)
(* it works on, once fetched, is the one Solr holds when the call is made. *)
\* solr, unprimed, is the schema Solr holds as the call is made
C9_Step ==
    (call = IdleCall /\ call'.op \in NamedReads \cup
                           {"get_full_schema", "get_copy_fields", "clear_schema"}) =>
        /\ Len(requests') >= 1
        /\ requests'[1] = Request("GET", SchemaUrl, "wt=json", <<>>)
        /\ fetched'.ok =>
              /\ fetched'.schema = solr
              /\ call'.op = "get_full_schema" => outcome' = Return(solr)
              /\ (call'.op \in NamedReads /\ FalsyName(call'.name)) =>
                    outcome' = Return(solr[KeyOfRead(call'.op)])
              /\ Len(requests') = 2 =>
                    \A g \in Range(call'.groups) :
                        \A e \in Listed(requests'[2].data, g) :
                            IF g = "copy-field"
                            THEN e \in Range(solr.copyFields)
                            ELSE e.name \in NamesIn(solr[SOLR_GROUP_MAPPING[g]])

C9_NeverCached == [][C9_Step]_vars

\* the full schema is read after the server's schema has changed twice
C9_Witness ==
    /\ call.op = "get_full_schema"
    /\ SchemaSize(solr) = 2
    /\ outcome = Return(solr)

-----------------------------------------------------------------------------
(* C10: the field-types command given a name the schema does not hold      *)
(* catches the SolrApiError: it prints the error in red, prints no JSON    *)
(* and ends without raising.                                               *)
C10_CliCatchesApiError ==
    (/\ call.op = "cli_field_types"
     /\ fetched.ok
     /\ ~FalsyName(call.name)
     /\ call.name \notin NamesIn(fetched.schema.fieldTypes)) =>
        /\ outcome.kind = "return"
        /\ Len(stdout) = 1
        /\ stdout[1].fn = "secho"
        /\ stdout[1].fg = "red"
        /\ stdout[1].json = <<>>
        /\ call.name \in Range(stdout[1].text)

\* the schema holds a field type, and another name is asked for
C10_Witness ==
    /\ call.op = "cli_field_types"
    /\ fetched.ok
    /\ call.name = "z"
    /\ fetched.schema.fieldTypes # <<>>
    /\ Len(stdout) = 1
    /\ stdout[1].fn = "secho"

-----------------------------------------------------------------------------
(* C11: for every field name the Solr schema holds, the command            *)
(* `field <name>` prints the JSON of that field's definition as the schema *)
(* holds it.                                                               *)
C11_FieldPrintsDefinition ==
    (call.op = "cli_field" /\ call.name \in NamesIn(solr.fields)) =>
        /\ outcome.kind = "return"
        /\ Len(stdout) = 1
        /\ stdout[1].fn = "echo"
        /\ \E m \in Range(solr.fields) :
              m.name = call.name /\ stdout[1].json = <<m>>

-----------------------------------------------------------------------------
(* C12: a clear_schema call whose groups hold a group that is not a        *)
(* SchemaGroup, at any position, ends in an error and sends no POST, so    *)
(* the schema Solr holds is unchanged; once the schema was fetched the     *)
(* error is the KeyError of the mapping lookup for the first such group,   *)
(* whatever recognized groups come before it.                              *)

UnknownAt(groups) == {i \in 1..Len(groups) : groups[i] \notin SchemaGroups}

\* the first group of the list the mapping does not know
FirstUnknown(groups) ==
    groups[CHOOSE i \in UnknownAt(groups) : \A j \in UnknownAt(groups) : i <= j]

C12_Step ==
    (call = IdleCall /\ call'.op = "clear_schema"
        /\ UnknownAt(call'.groups) # {}) =>
        /\ outcome'.kind = "raise"
        /\ \A i \in 1..Len(requests') : requests'[i].method # "POST"
        /\ solr' = solr
        /\ fetched'.ok => outcome' = Raise("KeyError", <<FirstUnknown(call'.groups)>>)

C12_UnknownGroupNoPost == [][C12_Step]_vars

\* the field group, which has a member to delete, comes before the group
\* the mapping does not know
C12_Witness ==
    /\ call.op = "clear_schema"
    /\ call.groups = <<"field", "unknown-group">>
    /\ fixed = <<>>
    /\ fetched.ok
    /\ fetched.schema.fields # <<>>
    /\ solr.fields # <<>>
    /\ outcome = Raise("KeyError", <<"unknown-group">>)
    /\ Len(requests) = 1

====
